---- MODULE Spec2Model ----
(***************************************************************************)
(* fig2pgf of python_to_latex.py as a state machine.                       *)
(*                                                                         *)
(* The text buffer s is a sequence of tokens [k, v]: k names the piece of  *)
(* markup the code appends, v carries the part of it that depends on the   *)
(* figure or the options.  The placeholders REPLACE_COLORS and             *)
(* REPLACE_SYMBOLIC_COORDS_X/Y are tokens of their own, so that the final  *)
(* str.replace calls are a rewriting of every such token in the buffer.    *)
(*                                                                         *)
(* Python None, '' and an empty dict are only ever tested for truth by the *)
(* code; they are modelled by "", <<>> and the empty function.             *)
(***************************************************************************)
EXTENDS Integers, Sequences, FiniteSets, TLC

\* Largest number of axes of a figure, largest number of lines of a figure.
MaxAxes == 2
MaxLines == 2

VARIABLES fig, opts, pc, plot_as_table, s, s_start, s_exit, color_definitions,
          symbolic_x_coordinates, symbolic_y_coordinates, ax_i, line_number, out

vars == <<fig, opts, pc, plot_as_table, s, s_start, s_exit, color_definitions,
          symbolic_x_coordinates, symbolic_y_coordinates, ax_i, line_number, out>>

----------------------------------------------------------------------------
\* Helpers

Tok(k, v) == [k |-> k, v |-> v]

Range(f) == {f[i] : i \in DOMAIN f}

Min(a, b) == IF a < b THEN a ELSE b

Digit(d) ==
  CASE d = 0 -> "0" [] d = 1 -> "1" [] d = 2 -> "2" [] d = 3 -> "3"
    [] d = 4 -> "4" [] d = 5 -> "5" [] d = 6 -> "6" [] d = 7 -> "7"
    [] d = 8 -> "8" [] d = 9 -> "9"

\* str() of a non-negative integer.
RECURSIVE Str(_)
Str(n) == IF n < 10 THEN Digit(n) ELSE Str(n \div 10) \o Digit(n % 10)

\* dtype.num values the code takes for symbolic data (numpy unicode strings).
SymbolicNums == {19}

\* str(label) of one sample of an array of the given dtype.num: a numpy
\* string is its own text, an integer is written in decimal.
PyStr(num, label) == IF num \in SymbolicNums THEN label ELSE Str(label)

\* label in coords, where coords is a list of str: a numpy integer equals no
\* str, a numpy string equals the str of the same text.
PyIn(num, label, coords) ==
  /\ num \in SymbolicNums
  /\ \E j \in DOMAIN coords : coords[j] = label

\* dict.get(key, '')
DictGet(d, key) == IF key \in DOMAIN d THEN d[key] ELSE ""

plot_linestyles ==
  [c \in {"-", "None", "--", "-.", ":"} |->
     CASE c = "-" -> "solid" [] c = "None" -> "only marks" [] c = "--" -> "dashed"
       [] c = "-." -> "dashdotted" [] c = ":" -> "dotted"]

plot_markers ==
  [c \in {"None", ".", "x", "o", "s"} |->
     CASE c = "None" -> "no marks" [] c = "." -> "mark=*" [] c = "x" -> "mark=x"
       [] c = "o" -> "mark=o" [] c = "s" -> "mark=square"]

----------------------------------------------------------------------------
\* Layout (lines 199-215)

GlobalOptionsNoUser(figure_options) ==
  <<Tok("option", "width,height,at"), Tok("option", "unbounded coords=jump")>>

GlobalOptions(figure_options) ==
  <<Tok("option", "width,height,at"), Tok("option", "unbounded coords=jump")>>
    \o (IF figure_options # "" THEN <<Tok("figure_options", figure_options)>> ELSE <<>>)

IsSingleOrEmpty(ax) == Len(ax) <= 1

IsSingle(ax) == Len(ax) = 1

GroupSizeRowsFirst(geometry) == <<Str(geometry[1]), Str(geometry[2])>>

\* "<column_number> by <row_number>" of get_geometry() = (rows, columns, index)
GroupSize(geometry) == <<Str(geometry[2]), Str(geometry[1])>>

SInit(ax, figure_options) ==
  IF IsSingle(ax)
  THEN <<Tok("begin axis[", "")>> \o GlobalOptions(figure_options)
  ELSE <<Tok("begin groupplot[", GroupSize(ax[1].geometry))>>
         \o GlobalOptions(figure_options) \o <<Tok("]", "")>>

SStart(ax) == IF IsSingle(ax) THEN <<>> ELSE <<Tok("nextgroupplot[", "")>>

SExit(ax) == IF IsSingle(ax) THEN <<Tok("end axis", "")>> ELSE <<Tok("end groupplot", "")>>

----------------------------------------------------------------------------
\* Axis header (lines 227-261)

HasSymbolicXFirstLine(axis) ==
  Len(axis.lines) > 0 /\ axis.lines[1].xdata.num \in SymbolicNums

HasSymbolicX(axis) ==
  TRUE \in {(axis.lines[i].xdata.num \in SymbolicNums) : i \in DOMAIN axis.lines}

HasSymbolicY(axis) ==
  TRUE \in {(axis.lines[i].ydata.num \in SymbolicNums) : i \in DOMAIN axis.lines}

AxisOptions(axis, plot_options) ==
  <<Tok("xlabel", axis.xlabel)>>
    \o (IF HasSymbolicX(axis)
        THEN <<Tok("xtick", "data"), Tok("REPLACE_SYMBOLIC_COORDS_X", <<>>)>>
        ELSE <<Tok("xmin xmax", axis.xlim)>>)
    \o <<Tok("ylabel", axis.ylabel)>>
    \o (IF HasSymbolicY(axis)
        THEN <<Tok("ytick", "data"), Tok("REPLACE_SYMBOLIC_COORDS_Y", <<>>)>>
        ELSE <<Tok("ymin ymax", axis.ylim)>>)
    \o (IF DictGet(plot_options, axis.label) # ""
        THEN <<Tok("plot_option", DictGet(plot_options, axis.label))>> ELSE <<>>)
    \o <<Tok("]", "")>>
    \o (IF axis.legend # <<>> THEN <<Tok("legend", axis.legend)>> ELSE <<>>)

----------------------------------------------------------------------------
\* One line (lines 265-293)

\* int(hex[i:i+2], 16) for i in (0, 2, 4), each written with str()
RGB(color) ==
  <<Str(16 * color[1] + color[2]), Str(16 * color[3] + color[4]),
    Str(16 * color[5] + color[6])>>

\* the declaration appended for a line, given the list before the append
ColorDefinition(definitions, line) ==
  [name |-> "color" \o Str(Len(definitions)), rgb |-> RGB(line.color)]

ColorRefOffByOne(definitions) == "color" \o Str(Len(definitions))

\* the name referenced in the option clause, given the list after the append
ColorRef(definitions) == "color" \o Str(Len(definitions) - 1)

LineOptionsMarkerFirst(line, o, definitions) ==
  (IF o.retain_linestyle /\ line.linestyle \in DOMAIN plot_linestyles
   THEN << <<"linestyle", plot_linestyles[line.linestyle]>> >> ELSE <<>>)
    \o (IF o.retain_marker /\ line.marker \in DOMAIN plot_markers
        THEN << <<"marker", plot_markers[line.marker]>> >> ELSE <<>>)
    \o (IF o.retain_color THEN << <<"color", ColorRef(definitions)>> >> ELSE <<>>)
    \o (IF DictGet(o.line_options, line.label) # ""
        THEN << <<"user", DictGet(o.line_options, line.label)>> >> ELSE <<>>)

\* the option clause of \addplot +[...]; definitions is the list after the append
LineOptions(line, o, definitions) ==
  (IF o.retain_linestyle /\ line.linestyle \in DOMAIN plot_linestyles
   THEN << <<"linestyle", plot_linestyles[line.linestyle]>> >> ELSE <<>>)
    \o (IF o.retain_color THEN << <<"color", ColorRef(definitions)>> >> ELSE <<>>)
    \o (IF o.retain_marker /\ line.marker \in DOMAIN plot_markers
        THEN << <<"marker", plot_markers[line.marker]>> >> ELSE <<>>)
    \o (IF DictGet(o.line_options, line.label) # ""
        THEN << <<"user", DictGet(o.line_options, line.label)>> >> ELSE <<>>)

\* zip(line.get_xdata(), line.get_ydata()), each sample written with str()
Rows(line) ==
  [j \in 1..Min(Len(line.xdata.vals), Len(line.ydata.vals)) |->
     <<PyStr(line.xdata.num, line.xdata.vals[j]), PyStr(line.ydata.num, line.ydata.vals[j])>>]

\* [coords.append(str(label)) for label in data if label not in coords]
RECURSIVE AppendLabels(_, _, _)
AppendLabels(coords, data, j) ==
  IF j > Len(data.vals) THEN coords
  ELSE AppendLabels(IF ~PyIn(data.num, data.vals[j], coords)
                    THEN Append(coords, PyStr(data.num, data.vals[j]))
                    ELSE coords,
                    data, j + 1)

LabelKeyOneBased(add_labels, number) == add_labels \o Str(number + 1)

\* pgfplot:<add_labels><line_number>
LabelKey(add_labels, number) == add_labels \o Str(number)

----------------------------------------------------------------------------
\* Final pass (lines 295-317)

\* str.replace: every occurrence of the placeholder becomes the text
Replace(text, placeholder, tok) ==
  [j \in DOMAIN text |-> IF text[j].k = placeholder THEN tok ELSE text[j]]

FileName(save_name) ==
  IF save_name[2] \in {".tikz", ".pgf", ".tex"}
  THEN save_name[1] \o save_name[2]
  ELSE save_name[1] \o save_name[2] \o ".tikz"

----------------------------------------------------------------------------
\* Inputs: figures of at most MaxAxes axes and MaxLines lines, and options

NumArray(v) == [num |-> 7, vals |-> v]

StrArray(v) == [num |-> 19, vals |-> v]

Line(x, y, linestyle, marker, color, label) ==
  [xdata |-> x, ydata |-> y, linestyle |-> linestyle, marker |-> marker,
   color |-> color, label |-> label]

\* '#1f77b4' and '#ff7f0e' after lstrip('#'), as hexadecimal digits
Blue == <<1, 15, 7, 7, 11, 4>>

Orange == <<15, 15, 7, 15, 0, 14>>

\* lines that differ in their data: numeric with a repeated x, two with string
\* x (one holds a repeated label and the text "0"), one with string y
DataLines ==
  { Line(NumArray(<<1, 1>>), NumArray(<<1, 2>>), "-", "None", Blue, "_child0"),
    Line(StrArray(<<"a", "0", "a">>), NumArray(<<1, 2, 3>>), "-", "None", Blue, "_child0"),
    Line(StrArray(<<"b", "a">>), NumArray(<<2, 1>>), "-", "None", Blue, "_child0"),
    Line(NumArray(<<1, 2>>), StrArray(<<"b", "b">>), "-", "None", Blue, "_child0") }

\* lines that differ in their style: every code in the lookup tables, or none
StyleLines ==
  { Line(NumArray(<<1, 2>>), NumArray(<<2, 4>>), "--", ".", Blue, "line a"),
    Line(NumArray(<<1, 2>>), NumArray(<<3, 5>>), "custom", "^", Orange, "_child1") }

PlainLines == { Line(NumArray(<<0, 1, 2>>), NumArray(<<0, 2, 4>>), "-", "None", Blue, "_child0") }

\* the sequences of exactly n lines of L
RECURSIVE LineSeqs(_, _)
LineSeqs(L, n) ==
  IF n = 0 THEN {<<>>} ELSE {Append(q, l) : q \in LineSeqs(L, n - 1), l \in L}

\* the sequences of m line sequences holding at most n lines in all
RECURSIVE Bodies(_, _, _)
Bodies(L, m, n) ==
  IF m = 0 THEN {<<>>}
  ELSE UNION { {<<a>> \o f : a \in LineSeqs(L, j), f \in Bodies(L, m - 1, n - j)} : j \in 0..n }

AllBodies(L) == UNION { Bodies(L, m, MaxLines) : m \in 0..MaxAxes }

\* an axis at position i; a decorated axis has a label and a legend
Axis(i, lines, decorated, geometry) ==
  [xlabel |-> "x" \o Str(i), ylabel |-> "y" \o Str(i),
   xlim |-> <<"0.0", "1.0">>, ylim |-> <<"-1.0", "1.0">>,
   label |-> IF decorated THEN "test" ELSE "",
   legend |-> IF decorated THEN <<"line a">> ELSE <<>>,
   geometry |-> <<geometry[1], geometry[2], i>>,
   lines |-> lines]

Figure(bodies, decorated, geometry) ==
  [axes |-> [i \in DOMAIN bodies |-> Axis(i, bodies[i], decorated[i], geometry)]]

Undecorated(bodies) == [i \in DOMAIN bodies |-> FALSE]

\* (rows, columns) of the subplot grid
Geometries == {<<1, 2>>, <<2, 1>>, <<2, 2>>}

DefaultOpts ==
  [save_name |-> <<>>, retain_color |-> FALSE, retain_linestyle |-> FALSE,
   retain_marker |-> TRUE, plot_as_table |-> TRUE, figure_options |-> "grid",
   plot_options |-> <<>>, line_options |-> <<>>, add_labels |-> ""]

\* figures that differ in their data, converted with or without plot_as_table
DataInputs ==
  { <<Figure(b, Undecorated(b), <<1, 2>>), [DefaultOpts EXCEPT !.plot_as_table = t]>> :
      b \in AllBodies(DataLines), t \in BOOLEAN }

\* figures that differ in their styles, converted under every retain_* choice
StyleInputs ==
  { <<Figure(b, Undecorated(b), <<1, 2>>),
      [DefaultOpts EXCEPT !.retain_color = r[1], !.retain_linestyle = r[2],
                          !.retain_marker = r[3],
                          !.line_options = IF u THEN "line a" :> "black,dashed" ELSE <<>>,
                          !.add_labels = IF u THEN "fig" ELSE ""]>> :
      b \in AllBodies(StyleLines), r \in BOOLEAN \X BOOLEAN \X BOOLEAN, u \in BOOLEAN }

\* figures that differ in their layout and axis decoration
LayoutInputs ==
  UNION { { <<Figure(b, d, g),
              [DefaultOpts EXCEPT !.figure_options = fo, !.save_name = sn,
                                  !.plot_options = po]>> :
              d \in [DOMAIN b -> BOOLEAN], g \in Geometries, fo \in {"", "grid"},
              po \in {<<>>, "test" :> "dashed"},
              sn \in {<<>>, <<"test", "">>, <<"test", ".tex">>} } :
          b \in AllBodies(PlainLines) }

Inputs == DataInputs \cup StyleInputs \cup LayoutInputs

----------------------------------------------------------------------------
\* The state machine

NoOutput == [returned |-> <<>>, printed |-> <<>>, file |-> <<>>]

Init ==
  \E input \in Inputs :
    /\ fig = input[1]
    /\ opts = input[2]
    /\ plot_as_table = input[2].plot_as_table
    /\ pc = "start"
    /\ s = <<>>
    /\ s_start = <<>>
    /\ s_exit = <<>>
    /\ color_definitions = <<>>
    /\ symbolic_x_coordinates = <<>>
    /\ symbolic_y_coordinates = <<>>
    /\ ax_i = 0
    /\ line_number = 0
    /\ out = NoOutput

\* where the loops go after the lines of axis a, given the number of lines done
AfterLine(a, done) ==
  IF done < Len(fig.axes[a].lines) THEN <<"line", a>>
  ELSE IF a < Len(fig.axes) THEN <<"axis", a + 1>>
  ELSE <<"finish", a>>

\* lines 196-222: the single branch, or the grid branch when ax[0] exists
Start ==
  /\ pc = "start"
  /\ IsSingle(fig.axes) \/ Len(fig.axes) > 0
  /\ s' = <<Tok("comment", ""), Tok("begin tikzpicture", "")>>
            \o (IF opts.retain_color THEN <<Tok("REPLACE_COLORS", <<>>)>> ELSE <<>>)
            \o SInit(fig.axes, opts.figure_options)
  /\ s_start' = SStart(fig.axes)
  /\ s_exit' = SExit(fig.axes)
  /\ color_definitions' = <<>>
  /\ ax_i' = 1
  /\ pc' = IF Len(fig.axes) = 0 THEN "finish" ELSE "axis"
  /\ UNCHANGED <<fig, opts, plot_as_table, symbolic_x_coordinates,
                 symbolic_y_coordinates, line_number, out>>

\* line 211 with no axis: ax[0] raises IndexError
StartError ==
  /\ pc = "start"
  /\ ~IsSingle(fig.axes)
  /\ Len(fig.axes) = 0
  /\ pc' = "error"
  /\ UNCHANGED <<fig, opts, plot_as_table, s, s_start, s_exit, color_definitions,
                 symbolic_x_coordinates, symbolic_y_coordinates, ax_i, line_number, out>>

\* lines 225-261: the option block and legend of axis ax_i
AxisHeader ==
  /\ pc = "axis"
  /\ LET axis == fig.axes[ax_i]
         next == AfterLine(ax_i, 0)
     IN /\ s' = s \o s_start \o AxisOptions(axis, opts.plot_options)
        /\ symbolic_x_coordinates' = IF HasSymbolicX(axis) THEN <<Str(0)>> ELSE <<>>
        /\ symbolic_y_coordinates' = IF HasSymbolicY(axis) THEN <<Str(0)>> ELSE <<>>
        /\ plot_as_table' = IF HasSymbolicX(axis) \/ HasSymbolicY(axis)
                            THEN FALSE ELSE plot_as_table
        /\ line_number' = 0
        /\ pc' = next[1]
        /\ ax_i' = next[2]
  /\ UNCHANGED <<fig, opts, s_start, s_exit, color_definitions, out>>

\* lines 264-293: one line of axis ax_i
EmitLine ==
  /\ pc = "line"
  /\ LET line == fig.axes[ax_i].lines[line_number + 1]
         definitions == IF opts.retain_color
                        THEN Append(color_definitions, ColorDefinition(color_definitions, line))
                        ELSE color_definitions
         next == AfterLine(ax_i, line_number + 1)
         collect_x == ~plot_as_table /\ symbolic_x_coordinates # <<>>
         collect_y == ~plot_as_table /\ symbolic_y_coordinates # <<>>
     IN /\ color_definitions' = definitions
        /\ symbolic_x_coordinates' =
             IF collect_x THEN AppendLabels(symbolic_x_coordinates, line.xdata, 1)
             ELSE symbolic_x_coordinates
        /\ symbolic_y_coordinates' =
             IF collect_y THEN AppendLabels(symbolic_y_coordinates, line.ydata, 1)
             ELSE symbolic_y_coordinates
        /\ s' = s \o <<Tok("addplot", LineOptions(line, opts, definitions))>>
                  \o <<Tok(IF plot_as_table THEN "table" ELSE "coordinates", Rows(line))>>
                  \o (IF opts.add_labels # ""
                      THEN <<Tok("label", LabelKey(opts.add_labels, line_number))>> ELSE <<>>)
        /\ line_number' = line_number + 1
        /\ pc' = next[1]
        /\ ax_i' = next[2]
  /\ UNCHANGED <<fig, opts, plot_as_table, s_start, s_exit, out>>

\* lines 295-305: the text after the replacements and the closing environments
Resolved ==
  LET s1 == IF opts.retain_color
            THEN Replace(s, "REPLACE_COLORS", Tok("definecolor", color_definitions))
                   \o <<Tok("newline", "")>>
            ELSE s
      s2 == IF symbolic_x_coordinates # <<>>
            THEN Replace(s1, "REPLACE_SYMBOLIC_COORDS_X",
                         Tok("symbolic x coords", symbolic_x_coordinates))
            ELSE s1
      s3 == IF symbolic_y_coordinates # <<>>
            THEN Replace(s2, "REPLACE_SYMBOLIC_COORDS_Y",
                         Tok("symbolic y coords", symbolic_y_coordinates))
            ELSE s2
  IN s3 \o s_exit \o <<Tok("end tikzpicture", "")>>

\* lines 295-317: resolve the placeholders, write or print, return
Finish ==
  /\ pc = "finish"
  /\ s' = Resolved
  /\ out' = IF opts.save_name # <<>>
            THEN [returned |-> Resolved, printed |-> <<>>,
                  file |-> <<FileName(opts.save_name), Resolved>>]
            ELSE [returned |-> Resolved, printed |-> Resolved, file |-> <<>>]
  /\ pc' = "done"
  /\ UNCHANGED <<fig, opts, plot_as_table, s_start, s_exit, color_definitions,
                 symbolic_x_coordinates, symbolic_y_coordinates, ax_i, line_number>>

Next == Start \/ StartError \/ AxisHeader \/ EmitLine \/ Finish

Spec == Init /\ [][Next]_vars

----------------------------------------------------------------------------
\* Reading the text buffer

Positions(t, kinds) == {p \in DOMAIN t : t[p].k \in kinds}

\* the axis a token belongs to: the number of xlabel directives up to it
AxisOf(t, p) == Cardinality({q \in 1..p : t[q].k = "xlabel"})

\* the position, within its axis, of the line a token belongs to (from 1)
LineOf(t, p) ==
  Cardinality({q \in 1..p : t[q].k = "addplot" /\ AxisOf(t, q) = AxisOf(t, p)})

\* the position of that line in the whole figure (from 1)
FigureLineOf(t, p) == Cardinality({q \in 1..p : t[q].k = "addplot"})

Blocks(t) == Positions(t, {"table", "coordinates"})

AnyStringX(axis) == \E i \in DOMAIN axis.lines : axis.lines[i].xdata.num = 19

AnyStringY(axis) == \E i \in DOMAIN axis.lines : axis.lines[i].ydata.num = 19

\* the lines of the figure in traversal order
RECURSIVE FlatLines(_, _)
FlatLines(axes, i) ==
  IF i > Len(axes) THEN <<>> ELSE axes[i].lines \o FlatLines(axes, i + 1)

\* the labels the traversal accumulates over the lines of one axis
RECURSIVE Accumulated(_, _, _, _)
Accumulated(coords, lines, dim, i) ==
  IF i > Len(lines) THEN coords
  ELSE Accumulated(AppendLabels(coords, IF dim = "x" THEN lines[i].xdata ELSE lines[i].ydata, 1),
                   lines, dim, i + 1)

\* the texts of all samples of one dimension of an axis, line after line
RECURSIVE SampleTexts(_, _, _)
SampleTexts(lines, dim, i) ==
  IF i > Len(lines) THEN <<>>
  ELSE LET data == IF dim = "x" THEN lines[i].xdata ELSE lines[i].ydata
       IN [j \in DOMAIN data.vals |-> PyStr(data.num, data.vals[j])]
            \o SampleTexts(lines, dim, i + 1)

\* first-seen-order deduplication
RECURSIVE Dedup(_, _, _)
Dedup(seen, texts, j) ==
  IF j > Len(texts) THEN seen
  ELSE Dedup(IF texts[j] \in Range(seen) THEN seen ELSE Append(seen, texts[j]), texts, j + 1)

\* the axis whose lines have all just been emitted, 0 if there is none
CompletedAxis ==
  IF pc = "finish" THEN Len(fig.axes)
  ELSE IF pc = "axis" THEN ax_i - 1
  ELSE 0

----------------------------------------------------------------------------
\* Claims

\* C1: in the returned text no vocabulary placeholder is left, and the
\* vocabulary written into each symbolic axis is the list of labels
\* accumulated over the lines of that same axis and dimension.
C1_VocabularyResolvedPerAxis ==
  pc = "done" =>
    \A p \in DOMAIN s :
      /\ s[p].k \notin {"REPLACE_SYMBOLIC_COORDS_X", "REPLACE_SYMBOLIC_COORDS_Y"}
      /\ s[p].k = "symbolic x coords" =>
           s[p].v = Accumulated(<<"0">>, fig.axes[AxisOf(s, p)].lines, "x", 1)
      /\ s[p].k = "symbolic y coords" =>
           s[p].v = Accumulated(<<"0">>, fig.axes[AxisOf(s, p)].lines, "y", 1)

\* C2: with plot_as_table left at True, every line of an axis that has no
\* string x and no string y data is emitted as a table block, whatever the
\* other axes of the figure are.
C2_NumericAxisIsTable ==
  (pc = "done" /\ opts.plot_as_table) =>
    \A p \in Blocks(s) :
      LET axis == fig.axes[AxisOf(s, p)]
      IN (~AnyStringX(axis) /\ ~AnyStringY(axis)) =>
           /\ s[p].k = "table"
           /\ s[p].v = Rows(axis.lines[LineOf(s, p)])

\* C3: the emission mode of an axis is fixed before its first line and is the
\* same for all its lines: while the lines of an axis are emitted every block
\* written so far for it has the mode of plot_as_table, an axis with a string
\* x or string y line has only coordinates blocks, and no axis has blocks of
\* both kinds.
C3_OneModePerAxis ==
  /\ \A p \in Blocks(s) :
       /\ (AnyStringX(fig.axes[AxisOf(s, p)]) \/ AnyStringY(fig.axes[AxisOf(s, p)]))
            => s[p].k = "coordinates"
       /\ \A q \in Blocks(s) : AxisOf(s, q) = AxisOf(s, p) => s[q].k = s[p].k
  /\ pc = "line" =>
       /\ (AnyStringX(fig.axes[ax_i]) \/ AnyStringY(fig.axes[ax_i])) => ~plot_as_table
       /\ \A p \in Blocks(s) :
            AxisOf(s, p) = ax_i => s[p].k = (IF plot_as_table THEN "table" ELSE "coordinates")

\* an axis with a purely numeric line and a string line, both emitted as coordinates
C3_Witness ==
  /\ pc = "done"
  /\ \E a \in DOMAIN fig.axes :
       /\ \E i \in DOMAIN fig.axes[a].lines :
            fig.axes[a].lines[i].xdata.num # 19 /\ fig.axes[a].lines[i].ydata.num # 19
       /\ AnyStringX(fig.axes[a])
       /\ Cardinality({p \in Blocks(s) : AxisOf(s, p) = a /\ s[p].k = "coordinates"}) = 2

\* C4: once all lines of a symbolic axis are emitted, its vocabulary is "0"
\* followed by the first-seen-order deduplication of the texts of all samples
\* of all its lines (string and numeric lines alike, a sample "0" included),
\* for x and for y.
C4_VocabularyIsSentinelThenDedup ==
  CompletedAxis > 0 =>
    LET axis == fig.axes[CompletedAxis]
    IN /\ AnyStringX(axis) =>
            symbolic_x_coordinates = <<"0">> \o Dedup(<<>>, SampleTexts(axis.lines, "x", 1), 1)
       /\ AnyStringY(axis) =>
            symbolic_y_coordinates = <<"0">> \o Dedup(<<>>, SampleTexts(axis.lines, "y", 1), 1)

\* C5: with retain_color the returned text holds one list of declarations, one
\* per line of the figure, named color0, color1, ... in traversal order across
\* the axes and carrying that line's RGB value, and the option clause of each
\* line references the name declared for it; without retain_color there is no
\* declaration and no color reference.
C5_ColorDeclarations ==
  pc = "done" =>
    LET lines == FlatLines(fig.axes, 1)
        decls == Positions(s, {"definecolor"})
        refs(p) == {j \in DOMAIN s[p].v : s[p].v[j][1] = "color"}
    IN /\ Positions(s, {"REPLACE_COLORS"}) = {}
       /\ opts.retain_color =>
            /\ Cardinality(decls) = 1
            /\ \A d \in decls :
                 /\ Len(s[d].v) = Len(lines)
                 /\ \A j \in DOMAIN s[d].v :
                      /\ s[d].v[j].name = "color" \o Str(j - 1)
                      /\ s[d].v[j].rgb = RGB(lines[j].color)
                 /\ \A p \in Positions(s, {"addplot"}) :
                      /\ Cardinality(refs(p)) = 1
                      /\ \A j \in refs(p) :
                           /\ s[p].v[j][2] = "color" \o Str(FigureLineOf(s, p) - 1)
                           /\ s[p].v[j][2] = s[d].v[FigureLineOf(s, p)].name
                      /\ d < p
       /\ ~opts.retain_color =>
            /\ decls = {}
            /\ \A p \in Positions(s, {"addplot"}) : refs(p) = {}

\* colors kept for a figure of two axes that both hold lines
C5_Witness ==
  /\ pc = "done"
  /\ opts.retain_color
  /\ Len(fig.axes) = 2
  /\ Len(fig.axes[1].lines) > 0
  /\ Len(fig.axes[2].lines) > 0
  /\ \E d \in Positions(s, {"definecolor"}) : Len(s[d].v) = Len(FlatLines(fig.axes, 1))

\* C6: the text has the axis environment exactly when the figure has one
\* axis; with two or more axes it has one groupplot environment of group size
\* "<columns> by <rows>" of the first axis's geometry and one nextgroupplot
\* directive per axis, the i-th one opening the option block of axis i; the
\* single layout has no nextgroupplot directive.
C6_Layout ==
  pc = "done" =>
    LET n == Len(fig.axes)
        single == Positions(s, {"begin axis["})
        group == Positions(s, {"begin groupplot["})
        nexts == Positions(s, {"nextgroupplot["})
    IN /\ (n = 1) <=> (Cardinality(single) = 1)
       /\ n = 1 => (group = {} /\ nexts = {} /\ Positions(s, {"end axis"}) = {Len(s) - 1})
       /\ n # 1 =>
            /\ single = {}
            /\ Cardinality(group) = 1
            /\ \A g \in group :
                 s[g].v = <<Str(fig.axes[1].geometry[2]), Str(fig.axes[1].geometry[1])>>
            /\ Cardinality(nexts) = n
            /\ \A p \in nexts :
                 /\ s[p + 1].k = "xlabel"
                 /\ s[p + 1].v = fig.axes[Cardinality({q \in nexts : q <= p})].xlabel
            /\ Positions(s, {"end groupplot"}) = {Len(s) - 1}

\* a grid of one row and two columns
C6_Witness ==
  /\ pc = "done"
  /\ Len(fig.axes) = 2
  /\ fig.axes[1].geometry[1] = 1
  /\ fig.axes[1].geometry[2] = 2
  /\ \E g \in Positions(s, {"begin groupplot["}) : s[g].v = <<"2", "1">>

\* C7: with add_labels given, every coordinate block is directly followed by a
\* label whose key is add_labels followed by the zero-based position of the
\* line within its own axis.
C7_LabelKeys ==
  /\ opts.add_labels # "" =>
       /\ \A p \in Blocks(s) :
            /\ p < Len(s)
            /\ s[p + 1].k = "label"
            /\ s[p + 1].v = opts.add_labels \o Str(LineOf(s, p) - 1)
       /\ Cardinality(Positions(s, {"label"})) = Cardinality(Blocks(s))
  /\ opts.add_labels = "" => Positions(s, {"label"}) = {}

\* the first lines of two axes carry the same key
C7_Witness ==
  /\ pc = "done"
  /\ opts.add_labels = "fig"
  /\ \E p, q \in Positions(s, {"label"}) :
       /\ AxisOf(s, p) = 1
       /\ AxisOf(s, q) = 2
       /\ s[p].v = "fig0"
       /\ s[q].v = "fig0"

\* C8: a figure without axes ends in the error state, with no text returned,
\* printed or written and nothing appended to the buffer.
C8_EmptyFigureRejected ==
  Len(fig.axes) = 0 =>
    /\ pc \in {"start", "error"}
    /\ s = <<>>
    /\ out = NoOutput

C8_Witness == pc = "error" /\ Len(fig.axes) = 0 /\ out = NoOutput

\* the place of a token kind within the text of one axis: computed
\* directives, axis-keyed option, end of the option block, legend, lines
AxisRank(k) ==
  CASE k \in {"xlabel", "xtick", "xmin xmax", "ylabel", "ytick", "ymin ymax",
              "REPLACE_SYMBOLIC_COORDS_X", "REPLACE_SYMBOLIC_COORDS_Y",
              "symbolic x coords", "symbolic y coords"} -> 1
    [] k = "plot_option" -> 2
    [] k = "]" -> 3
    [] k = "legend" -> 4
    [] k \in {"addplot", "table", "coordinates", "label"} -> 5
    [] OTHER -> 0

\* within every axis the computed directives come first, then the axis-keyed
\* option, then the end of the option block, then the lines
AxisTextOrdered ==
  \A p, q \in DOMAIN s :
    (/\ p < q
     /\ AxisOf(s, p) > 0
     /\ AxisOf(s, p) = AxisOf(s, q)
     /\ AxisRank(s[p].k) > 0
     /\ AxisRank(s[q].k) > 0) => AxisRank(s[p].k) <= AxisRank(s[q].k)

\* C9 as stated: with figure_options given, the option block of every axis
\* (the block its xlabel directive is in) holds the figure-wide option before
\* the axis's own directives, which precede the axis-keyed option and the lines.
C9_FigureOptionsInEveryAxisBlock ==
  (pc = "done" /\ opts.figure_options # "") =>
    /\ \A x \in Positions(s, {"xlabel"}) :
         \E q \in Positions(s, {"figure_options"}) :
           /\ q < x
           /\ s[q].v = opts.figure_options
           /\ \A r \in (q + 1)..(x - 1) : s[r].k # "]"
    /\ AxisTextOrdered

\* C9 as amended: with figure_options given, the text holds the figure-wide
\* option exactly once, in the option block of the enclosing environment: in
\* the single layout that is the block of the axis itself, before its
\* directives; in the grid layout it is the block of the groupplot
\* environment, closed before the first nextgroupplot, and no subplot block
\* holds it.  In both layouts it precedes every axis's directives, which
\* precede the axis-keyed option, which precedes the lines of that axis.
C9_FigureOptionsOnceInEnvironmentBlock ==
  (pc = "done" /\ opts.figure_options # "") =>
    LET F == Positions(s, {"figure_options"})
        first == CHOOSE x \in Positions(s, {"xlabel"}) :
                   \A y \in Positions(s, {"xlabel"}) : x <= y
    IN /\ Cardinality(F) = 1
       /\ \A q \in F :
            /\ s[q].v = opts.figure_options
            /\ q < first
            /\ Len(fig.axes) = 1 =>
                 /\ \E b \in Positions(s, {"begin axis["}) : b < q
                 /\ \A r \in (q + 1)..(first - 1) : s[r].k # "]"
            /\ Len(fig.axes) > 1 =>
                 /\ \E b \in Positions(s, {"begin groupplot["}) : b < q
                 /\ s[q + 1].k = "]"
                 /\ \A n \in Positions(s, {"nextgroupplot["}) : q + 1 < n
       /\ AxisTextOrdered

\* a grid whose first axis has an axis-keyed option and a line
C9_Witness ==
  /\ pc = "done"
  /\ opts.figure_options = "grid"
  /\ Len(fig.axes) = 2
  /\ \E p \in Positions(s, {"plot_option"}), q \in Positions(s, {"addplot"}) :
       AxisOf(s, p) = 1 /\ AxisOf(s, q) = 1

ClauseRank(kind) ==
  CASE kind = "linestyle" -> 1 [] kind = "color" -> 2 [] kind = "marker" -> 3
    [] kind = "user" -> 4

\* C10: in every option clause the tokens are in the order linestyle, color
\* reference, marker, caller option, each at most once; the linestyle (marker)
\* token is there exactly when retain_linestyle (retain_marker) is set and
\* the line's code is in the lookup table, and is then the table's entry; the
\* color reference is there exactly when retain_color is set; the caller
\* option exactly when line_options has an entry for the line's label.
C10_ClauseOrder ==
  \A p \in Positions(s, {"addplot"}) :
    LET clause == s[p].v
        line == fig.axes[AxisOf(s, p)].lines[LineOf(s, p)]
        has(kind) == \E j \in DOMAIN clause : clause[j][1] = kind
        text(kind) == clause[CHOOSE j \in DOMAIN clause : clause[j][1] = kind][2]
    IN /\ \A i, j \in DOMAIN clause :
            i < j => ClauseRank(clause[i][1]) < ClauseRank(clause[j][1])
       /\ has("linestyle") <=>
            (opts.retain_linestyle /\ line.linestyle \in {"-", "None", "--", "-.", ":"})
       /\ has("linestyle") => text("linestyle") = plot_linestyles[line.linestyle]
       /\ has("color") <=> opts.retain_color
       /\ has("marker") <=>
            (opts.retain_marker /\ line.marker \in {"None", ".", "x", "o", "s"})
       /\ has("marker") => text("marker") = plot_markers[line.marker]
       /\ has("user") <=> line.label \in DOMAIN opts.line_options
       /\ has("user") => text("user") = opts.line_options[line.label]

\* all retain_* flags set: one clause with all four tokens, and one for a
\* line of unmapped codes that keeps only its color reference
C10_Witness ==
  /\ pc = "done"
  /\ opts.retain_linestyle /\ opts.retain_color /\ opts.retain_marker
  /\ \E p, q \in Positions(s, {"addplot"}) :
       /\ Len(s[p].v) = 4
       /\ Len(s[q].v) = 1
       /\ s[q].v[1][1] = "color"

====
